---- MODULE Spec2Model ----
(***************************************************************************)
(* State-machine model of claude-island-state.py, the hook that forwards   *)
(* one lifecycle event to the companion application over a stream socket   *)
(* and, for PermissionRequest, waits for the application's decision.       *)
(***************************************************************************)
EXTENDS Integers, Sequences, FiniteSets, TLC

VARIABLES
    environ,    \* os.environ: CLAUDE_ISLAND_TCP, CLAUDE_ISLAND_REMOTE_HOST, TMUX_PANE
    stdin,      \* the bytes on standard input, as a sequence of JSON tokens
    pc,         \* position of the process in main / send_event
    data,       \* main: data, the parsed event document (keys -> values)
    state,      \* main: state, the record being built (keys -> values)
    sock,       \* the socket object of get_socket
    peer,       \* what the companion application did with the connection
    inbox,      \* segments the peer has sent that the process has not read
    buf,        \* send_event: the bytes recv returned
    wire,       \* byte strings sendall has written whole to the connection
    io,         \* counters of the calls made: on the socket, and of tmux
    xfer,       \* how the exchange of send_event ended
    response,   \* main: response, the value send_event returned
    raised,     \* the exception that escaped to the interpreter, or "none"
    stdout,     \* documents printed on standard output
    exitCode,   \* process exit status, or NoExit while running
    runs,       \* two invocations side by side: the locals of each process
    conns       \* two invocations side by side: the connections of the peer

\* the variables of one invocation, and those of two invocations side by side
single == <<environ, stdin, pc, data, state, sock, peer, inbox, buf, wire, io, xfer,
            response, raised, stdout, exitCode>>
conc == <<runs, conns>>

vars == <<environ, stdin, pc, data, state, sock, peer, inbox, buf, wire, io, xfer,
          response, raised, stdout, exitCode, runs, conns>>

----------------------------------------------------------------------------
(* Program constants                                                       *)

SOCKET_PATH == "/tmp/claude-island.sock"
TIMEOUT_SECONDS == 300
MAX_PORT == 65535
DENY_DEFAULT == "Denied by user via ClaudeIsland"
RECV_BUFSIZE == 4096

(* Bound of the model: segments the peer may have in flight, unread.       *)
MaxPeerMsgs == 1

NoExit == "running"
NoKeys == [x \in {} |-> x]

----------------------------------------------------------------------------
(* Python values.  A scalar is a record [k, v]; a top-level JSON document  *)
(* is a record [k, v, d, n] where d holds the members of an object and n   *)
(* the length of an array.                                                 *)

PyNone == [k |-> "null", v |-> "null"]
PyStr(s) == [k |-> "str", v |-> s]
PyNum(s) == [k |-> "num", v |-> s]
PyEmptyDict == [k |-> "dict", v |-> "{}"]
PyEmptyList == [k |-> "list", v |-> "[]"]

\* bool(x) of a member value
Truthy(x) ==
    CASE x.k = "str" -> x.v # ""
      [] x.k = "num" -> x.v # "0"
      [] OTHER -> FALSE

DocDict(f) == [k |-> "dict", v |-> "", d |-> f, n |-> 0]
DocList(len) == [k |-> "list", v |-> "", d |-> NoKeys, n |-> len]
DocScalar(x) == [k |-> x.k, v |-> x.v, d |-> NoKeys, n |-> 0]
DocNone == DocScalar(PyNone)

\* bool(x) of a document
DocTruthy(x) ==
    CASE x.k = "dict" -> DOMAIN x.d # {}
      [] x.k = "list" -> x.n > 0
      [] OTHER -> Truthy([k |-> x.k, v |-> x.v])

\* dict.get(key, default)
Get(f, key, default) == IF key \in DOMAIN f THEN f[key] ELSE default

\* d[key] = val on a dict held as a function
Put(f, key, val) == [x \in DOMAIN f \cup {key} |-> IF x = key THEN val ELSE f[x]]

----------------------------------------------------------------------------
(* JSON text as a sequence of tokens.  A token of kind "bad" is a byte     *)
(* that is not valid UTF-8.                                                *)

P(c) == [t |-> "p", v |-> c]
TStr(s) == [t |-> "str", v |-> s]
TNum(s) == [t |-> "num", v |-> s]
TNull == [t |-> "lit", v |-> "null"]
TBad == [t |-> "bad", v |-> "xFF"]

\* the first byte of a two-byte character whose second byte is not there
THalf == [t |-> "bad", v |-> "xC3"]

\* a string of more bytes than one recv call takes
LongReason == "xxxx...xxxx"
LongReasonBytes == 5000
ShortTokenBytes == 32

\* len() of the bytes of a token: punctuation is one byte, the other tokens of
\* the model are short but for LongReason
ByteLen(tok) ==
    CASE tok.t = "p" -> 1
      [] tok.v = LongReason -> LongReasonBytes + 2
      [] OTHER -> ShortTokenBytes

\* a token of which only the first bytes are there: the text stops inside it
Cut(tok) == [t |-> "cut", v |-> tok.v]

\* bytes[:n]
RECURSIVE Take(_, _)
Take(bytes, n) ==
    IF bytes = <<>> \/ n <= 0 THEN <<>>
    ELSE IF ByteLen(Head(bytes)) <= n
         THEN <<Head(bytes)>> \o Take(Tail(bytes), n - ByteLen(Head(bytes)))
         ELSE <<Cut(Head(bytes))>>

\* the bytes of the segments of a stream, in order
RECURSIVE Flatten(_)
Flatten(segs) == IF segs = <<>> THEN <<>> ELSE Head(segs) \o Flatten(Tail(segs))

\* bytes.decode(): UnicodeDecodeError when a byte is not valid UTF-8
DecodeFails(bytes) == \E i \in 1..Len(bytes) : bytes[i].t = "bad"

IsScalarTok(tok) == tok.t \in {"str", "num", "lit"}

ScalarOf(tok) ==
    CASE tok.t = "str" -> PyStr(tok.v)
      [] tok.t = "num" -> PyNum(tok.v)
      [] OTHER -> PyNone

ParseFail == [ok |-> FALSE, val |-> PyNone, next |-> 0]

\* a member value at position i: a scalar, {} or []
ParseValue(s, i) ==
    IF i > Len(s) THEN ParseFail
    ELSE IF IsScalarTok(s[i]) THEN [ok |-> TRUE, val |-> ScalarOf(s[i]), next |-> i + 1]
    ELSE IF i + 1 <= Len(s) /\ s[i] = P("{") /\ s[i + 1] = P("}")
         THEN [ok |-> TRUE, val |-> PyEmptyDict, next |-> i + 2]
    ELSE IF i + 1 <= Len(s) /\ s[i] = P("[") /\ s[i + 1] = P("]")
         THEN [ok |-> TRUE, val |-> PyEmptyList, next |-> i + 2]
    ELSE ParseFail

DocFail == [ok |-> FALSE, val |-> DocNone, next |-> 0]

\* the members of an object from position i on: key : value (, key : value)* }
RECURSIVE ParseMembers(_, _, _)
ParseMembers(s, i, acc) ==
    IF i + 1 > Len(s) \/ s[i].t # "str" \/ s[i + 1] # P(":") THEN DocFail
    ELSE LET pv == ParseValue(s, i + 2)
         IN  IF ~pv.ok \/ pv.next > Len(s) THEN DocFail
             ELSE LET acc2 == Put(acc, s[i].v, pv.val)
                  IN  IF s[pv.next] = P("}")
                      THEN [ok |-> TRUE, val |-> DocDict(acc2), next |-> pv.next + 1]
                      ELSE IF s[pv.next] = P(",")
                      THEN ParseMembers(s, pv.next + 1, acc2)
                      ELSE DocFail

\* the elements of an array from position i on: value (, value)* ]
RECURSIVE ParseElements(_, _, _)
ParseElements(s, i, len) ==
    LET pv == ParseValue(s, i)
    IN  IF ~pv.ok \/ pv.next > Len(s) THEN DocFail
        ELSE IF s[pv.next] = P("]")
        THEN [ok |-> TRUE, val |-> DocList(len + 1), next |-> pv.next + 1]
        ELSE IF s[pv.next] = P(",")
        THEN ParseElements(s, pv.next + 1, len + 1)
        ELSE DocFail

ParseDoc(s) ==
    IF Len(s) = 0 THEN DocFail
    ELSE IF IsScalarTok(s[1]) THEN [ok |-> TRUE, val |-> DocScalar(ScalarOf(s[1])), next |-> 2]
    ELSE IF s[1] = P("{")
         THEN IF Len(s) >= 2 /\ s[2] = P("}")
              THEN [ok |-> TRUE, val |-> DocDict(NoKeys), next |-> 3]
              ELSE ParseMembers(s, 2, NoKeys)
    ELSE IF s[1] = P("[")
         THEN IF Len(s) >= 2 /\ s[2] = P("]")
              THEN [ok |-> TRUE, val |-> DocList(0), next |-> 3]
              ELSE ParseElements(s, 2, 0)
    ELSE DocFail

\* variant: text that is not a document is read as an empty object
Loads_Lenient(s) ==
    LET r == ParseDoc(s)
    IN  IF r.ok /\ r.next = Len(s) + 1 THEN [ok |-> TRUE, val |-> r.val]
        ELSE [ok |-> TRUE, val |-> DocDict(NoKeys)]

\* json.loads(text): JSONDecodeError (ok = FALSE) unless one document spans the text
Loads(s) ==
    LET r == ParseDoc(s)
    IN  IF r.ok /\ r.next = Len(s) + 1 THEN [ok |-> TRUE, val |-> r.val]
        ELSE [ok |-> FALSE, val |-> DocNone]

\* json.dumps of a member value
DumpValue(x) ==
    CASE x.k = "str" -> <<TStr(x.v)>>
      [] x.k = "num" -> <<TNum(x.v)>>
      [] x.k = "dict" -> <<P("{"), P("}")>>
      [] x.k = "list" -> <<P("["), P("]")>>
      [] OTHER -> <<TNull>>

\* insertion order of the keys of state
KeyOrder == <<"session_id", "cwd", "event", "pid", "tty", "remote_host", "tmux_target",
              "status", "tool", "tool_input", "tool_use_id", "notification_type", "message">>

RECURSIVE DumpMembers(_, _, _)
DumpMembers(f, i, first) ==
    IF i > Len(KeyOrder) THEN <<>>
    ELSE IF KeyOrder[i] \in DOMAIN f
         THEN (IF first THEN <<>> ELSE <<P(",")>>)
              \o <<TStr(KeyOrder[i]), P(":")>> \o DumpValue(f[KeyOrder[i]])
              \o DumpMembers(f, i + 1, FALSE)
         ELSE DumpMembers(f, i + 1, first)

\* variant: the members whose value is None are left out of the text
Dumps_SkipNull(f) ==
    <<P("{")>>
    \o DumpMembers([key \in {x \in DOMAIN f : f[x] # PyNone} |-> f[key]], 1, TRUE)
    \o <<P("}")>>

\* json.dumps(state).encode()
Dumps(f) == <<P("{")>> \o DumpMembers(f, 1, TRUE) \o <<P("}")>>

----------------------------------------------------------------------------
(* get_socket: the transport target.  CLAUDE_ISLAND_TCP is a sequence of   *)
(* one-character strings so that rsplit and int are computed, not assumed. *)

Digits == <<"0", "1", "2", "3", "4", "5", "6", "7", "8", "9">>

IsDigit(c) == \E i \in 1..Len(Digits) : Digits[i] = c

DigitVal(c) == (CHOOSE i \in 1..Len(Digits) : Digits[i] = c) - 1

\* int(s) raises ValueError unless s is a literal; over the alphabet of
\* TcpChars (digits, letters, ':') the literals are the non-empty digit strings
IntParses(s) == Len(s) > 0 /\ \A i \in 1..Len(s) : IsDigit(s[i])

RECURSIVE IntOf(_)
IntOf(s) ==
    IF Len(s) = 0 THEN 0
    ELSE 10 * IntOf(SubSeq(s, 1, Len(s) - 1)) + DigitVal(s[Len(s)])

\* variant: the value is split on its first ':'
LastColon_First(s) ==
    IF \E i \in 1..Len(s) : s[i] = ":"
    THEN CHOOSE i \in 1..Len(s) : s[i] = ":" /\ \A j \in 1..(i - 1) : s[j] # ":"
    ELSE 0

\* index of the last ':' of s, 0 when there is none
LastColon(s) ==
    IF \E i \in 1..Len(s) : s[i] = ":"
    THEN CHOOSE i \in 1..Len(s) : s[i] = ":" /\ \A j \in (i + 1)..Len(s) : s[j] # ":"
    ELSE 0

\* tcp_target.rsplit(":", 1)
RSplitHost(s) == SubSeq(s, 1, LastColon(s) - 1)
RSplitPort(s) == SubSeq(s, LastColon(s) + 1, Len(s))

\* socket.socket(...): a new socket is blocking, without a timeout
NewSocket(family) ==
    [st |-> "created", family |-> family, timed |-> FALSE, timeout |-> 0,
     host |-> <<>>, port |-> 0, path |-> ""]

NoSocket == [NewSocket("none") EXCEPT !.st = "none"]

\* variant: settimeout is never called, the socket stays blocking
SetTimeout_Skipped(s) == s

\* sock.settimeout(TIMEOUT_SECONDS)
SetTimeout(s) == [s EXCEPT !.timed = TRUE, !.timeout = TIMEOUT_SECONDS]

\* the address get_socket connects to, or the exception raised before connecting
Target(tcp) ==
    IF tcp.k = "str" /\ Len(tcp.c) > 0
    THEN IF LastColon(tcp.c) > 0
         THEN IF IntParses(RSplitPort(tcp.c))
              THEN [err |-> "none", family |-> "AF_INET", host |-> RSplitHost(tcp.c),
                    port |-> IntOf(RSplitPort(tcp.c)), path |-> ""]
              ELSE [err |-> "ValueError", family |-> "AF_INET", host |-> RSplitHost(tcp.c),
                    port |-> 0, path |-> ""]
         ELSE IF IntParses(tcp.c)
              THEN [err |-> "none", family |-> "AF_INET", host |-> <<"l", "o", "c", "a", "l", "h", "o", "s", "t">>,
                    port |-> IntOf(tcp.c), path |-> ""]
              ELSE [err |-> "ValueError", family |-> "AF_INET", host |-> <<>>,
                    port |-> 0, path |-> ""]
    ELSE [err |-> "none", family |-> "AF_UNIX", host |-> <<>>, port |-> 0, path |-> SOCKET_PATH]

\* sock.connect((host, port)) raises OverflowError for a port outside 0..65535
PortInRange(port) == port >= 0 /\ port <= MAX_PORT

----------------------------------------------------------------------------
(* Inputs: the environment, the documents on standard input, the results   *)
(* of the external utilities, and what the peer may send.                  *)

EnvUnset == [k |-> "null", c |-> <<>>]
EnvChars(c) == [k |-> "str", c |-> c]

TcpTargets ==
    { EnvUnset,
      EnvChars(<<>>),
      EnvChars(<<"9", "9">>),
      EnvChars(<<"h", ":", "9">>),
      EnvChars(<<"a", ":", "b", ":", "9">>),
      EnvChars(<<"h", ":", "a">>),
      EnvChars(<<"a">>),
      EnvChars(<<"h", ":">>),
      EnvChars(<<"7", "0", "0", "0", "0">>) }

RemoteHosts == {PyNone, PyStr("cluster")}
Panes == {PyNone, PyStr("%42")}

\* {"k1": v1, ...} from a sequence of <<key, value>> pairs
RECURSIVE ObjMembers(_, _)
ObjMembers(pairs, i) ==
    IF i > Len(pairs) THEN <<>>
    ELSE (IF i = 1 THEN <<>> ELSE <<P(",")>>)
         \o <<TStr(pairs[i][1]), P(":")>> \o DumpValue(pairs[i][2])
         \o ObjMembers(pairs, i + 1)

Obj(pairs) == <<P("{")>> \o ObjMembers(pairs, 1) \o <<P("}")>>

Common(e) == <<<<"session_id", PyStr("s1")>>, <<"cwd", PyStr("/w")>>,
               <<"hook_event_name", PyStr(e)>>>>

ToolEvents == {"PreToolUse", "PostToolUse", "PermissionRequest"}
PlainEvents == {"UserPromptSubmit", "Stop", "SubagentStop", "SessionStart", "SessionEnd",
                "PreCompact", "Bogus"}
NoisyEvents == {"Stop", "Bogus"}

ToolExtras ==
    { <<>>,
      <<<<"tool_input", PyStr("ls")>>>>,
      <<<<"tool_input", PyStr("ls")>>, <<"tool_use_id", PyStr("")>>>>,
      <<<<"tool_input", PyStr("ls")>>, <<"tool_use_id", PyStr("tu1")>>>> }

NotificationExtras ==
    { <<>>,
      <<<<"message", PyStr("hi")>>>>,
      <<<<"notification_type", PyStr("permission_prompt")>>, <<"message", PyStr("hi")>>>>,
      <<<<"notification_type", PyStr("idle_prompt")>>>>,
      <<<<"notification_type", PyStr("idle_prompt")>>, <<"message", PyStr("hi")>>>>,
      <<<<"notification_type", PyStr("auth_success")>>, <<"message", PyStr("hi")>>>> }

Noise == <<<<"tool_name", PyStr("Bash")>>, <<"tool_input", PyStr("ls")>>,
           <<"tool_use_id", PyStr("tu1")>>, <<"notification_type", PyStr("idle_prompt")>>,
           <<"message", PyStr("hi")>>>>

EventDocs ==
    { Obj(Common(e) \o <<<<"tool_name", PyStr("Bash")>>>> \o x) : e \in ToolEvents, x \in ToolExtras }
    \cup { Obj(Common("Notification") \o x) : x \in NotificationExtras }
    \cup { Obj(Common(e)) : e \in PlainEvents }
    \cup { Obj(Common(e) \o Noise) : e \in NoisyEvents }
    \cup { Obj(<<>>) }

\* not an event document: empty input, truncated text, a byte that is not UTF-8,
\* and JSON values that are not objects
BadDocs ==
    { <<>>, <<P("{")>>, <<P("{"), TStr("hook_event_name")>>, <<TBad>>,
      <<P("["), P("]")>>, <<TNum("5")>> }

StdinDocs == EventDocs \cup BadDocs

\* stdout of `ps -p <ppid> -o tty=` after strip(); fail: the call raised
PsResults ==
    { [fail |-> FALSE, out |-> "ttys001"], [fail |-> FALSE, out |-> "/dev/ttys001"],
      [fail |-> FALSE, out |-> "??"], [fail |-> FALSE, out |-> "-"],
      [fail |-> FALSE, out |-> ""], [fail |-> TRUE, out |-> ""] }

\* os.ttyname(fd): a device path, or OSError
TtyNames == {"OSError", "/dev/ttys001"}

\* the tmux display-message call: returncode and stdout after strip(); fail: it raised
TmuxResults ==
    { [fail |-> FALSE, rc |-> 0, out |-> "main:1.0"], [fail |-> FALSE, rc |-> 0, out |-> ""],
      [fail |-> FALSE, rc |-> 1, out |-> ""], [fail |-> TRUE, rc |-> 0, out |-> ""] }

\* the first segment of a reply that reaches the process in two segments: the
\* text stops before the closing brace, or inside a two-byte character
SplitReplyHeads ==
    { <<P("{"), TStr("decision"), P(":"), TStr("allow")>>,
      <<P("{"), TStr("decision"), P(":"), TStr("deny"), P(","), TStr("reason"), P(":"),
        THalf>> }

\* a reply of more than 4096 bytes
LongReplies ==
    { Obj(<<<<"decision", PyStr("allow")>>, <<"reason", PyStr(LongReason)>>>>) }

\* what the peer may write on the connection, one segment at a time
ReplySegments ==
    SplitReplyHeads \cup LongReplies \cup
    { Obj(<<<<"decision", PyStr("allow")>>>>),
      Obj(<<<<"decision", PyStr("deny")>>, <<"reason", PyStr("no")>>>>),
      Obj(<<<<"decision", PyStr("deny")>>>>),
      Obj(<<<<"decision", PyStr("deny")>>, <<"reason", PyStr("")>>>>),
      Obj(<<<<"decision", PyStr("ask")>>>>),
      Obj(<<<<"decision", PyNum("5")>>>>),
      Obj(<<>>),
      <<P("["), TNum("1"), P("]")>>,
      <<P("["), P("]")>>,
      <<TStr("allow")>>,
      <<TNum("5")>>,
      <<TBad>> }

\* what the peer may write after a first segment that is still unread: the
\* closing brace of a split reply, a second whole reply, bytes that are not UTF-8
FollowUpSegments ==
    { <<P("}")>>, Obj(<<<<"decision", PyStr("allow")>>>>), <<TBad>> }

\* the segments the peer may write when the unread ones are box
NextSegments(first, box) == IF box = <<>> THEN first ELSE FollowUpSegments

\* the ways connect() ends: connected, or an OSError
\* (ConnectionRefusedError, FileNotFoundError, socket.timeout, socket.gaierror)
ConnectOutcomes == {"ok", "refused", "timeout"}

----------------------------------------------------------------------------
(* State after process start                                               *)

NoIO == [writes |-> 0, reads |-> 0, closes |-> 0, connects |-> 0, tmux |-> 0]

Init ==
    /\ environ \in [tcp : TcpTargets, remote : RemoteHosts, pane : Panes]
    /\ stdin = <<>>
    /\ pc = "start"
    /\ data = NoKeys
    /\ state = NoKeys
    /\ sock = NoSocket
    /\ peer = "none"
    /\ inbox = <<>>
    /\ buf = <<>>
    /\ wire = <<>>
    /\ io = NoIO
    /\ xfer = "none"
    /\ response = DocNone
    /\ raised = "none"
    /\ stdout = <<>>
    /\ exitCode = NoExit
    /\ runs = <<>>
    /\ conns = <<>>

----------------------------------------------------------------------------
(* main, lines 123-151: read the event, gather the context                 *)

\* the process ends: sys.exit(code), or an uncaught exception (status 1)
Exit(code, exc) ==
    /\ pc' = "done"
    /\ exitCode' = code
    /\ raised' = exc

ClaudePid == PyNum("4242")

\* tty.startswith("/dev/") and the prefixing of line 40, over PsResults
StartsWithDev(name) == name \in {"/dev/ttys001"}
DevPath(name) == IF StartsWithDev(name) THEN name ELSE
                 CASE name = "ttys001" -> "/dev/ttys001" [] OTHER -> name

get_tty(ps, inTty, outTty) ==
    IF ~ps.fail /\ ps.out # "" /\ ps.out # "??" /\ ps.out # "-"
    THEN PyStr(DevPath(ps.out))
    ELSE IF inTty # "OSError" THEN PyStr(inTty)
    ELSE IF outTty # "OSError" THEN PyStr(outTty)
    ELSE PyNone

\* variant: no fallback to the pane id when the query gives nothing
get_tmux_target_NoFallback(pane, tm) ==
    IF ~Truthy(pane) THEN PyNone
    ELSE IF ~tm.fail /\ tm.rc = 0 /\ tm.out # "" THEN PyStr(tm.out)
    ELSE PyNone

get_tmux_target(pane, tm) ==
    IF ~Truthy(pane) THEN PyNone
    ELSE IF ~tm.fail /\ tm.rc = 0 /\ tm.out # "" THEN PyStr(tm.out)
    ELSE pane

\* the error handler of sys.stdin, set by the interpreter from the locale and
\* PYTHONIOENCODING: strict raises UnicodeDecodeError on a byte that is not
\* UTF-8, surrogateescape hands the byte on to json.load
StdinErrorHandlers == {"strict", "surrogateescape"}

\* lines 124-136: json.load(sys.stdin).  A byte that is not UTF-8 is, in the
\* documents of BadDocs, the whole input: undecoded it is no JSON value.
ReadStdin ==
    /\ UNCHANGED conc
    /\ pc = "start"
    /\ \E doc \in StdinDocs, errors \in StdinErrorHandlers :
        /\ stdin' = doc
        /\ IF DecodeFails(doc) /\ errors = "strict"
           THEN Exit(1, "UnicodeDecodeError") /\ data' = data
           ELSE IF ~Loads(doc).ok
           THEN Exit(1, "none") /\ data' = data
           ELSE IF Loads(doc).val.k # "dict"
           THEN Exit(1, "AttributeError") /\ data' = data
           ELSE /\ data' = Loads(doc).val.d
                /\ pc' = "context"
                /\ UNCHANGED <<exitCode, raised>>
    /\ UNCHANGED <<environ, state, sock, peer, inbox, buf, wire, io, xfer, response, stdout>>

BaseState(d, env, tty, tmux) ==
    [key \in {"session_id", "cwd", "event", "pid", "tty", "remote_host", "tmux_target"} |->
        CASE key = "session_id" -> Get(d, "session_id", PyStr("unknown"))
          [] key = "cwd" -> Get(d, "cwd", PyStr(""))
          [] key = "event" -> Get(d, "hook_event_name", PyStr(""))
          [] key = "pid" -> ClaudePid
          [] key = "tty" -> tty
          [] key = "remote_host" -> env.remote
          [] OTHER -> tmux]

\* the tmux query runs when line 140 calls get_tmux_target and line 87 finds a pane
RunsTmux(env) == Truthy(env.remote) /\ Truthy(env.pane)

BuildContext ==
    /\ UNCHANGED conc
    /\ pc = "context"
    /\ \E ps \in PsResults, inTty \in TtyNames, outTty \in TtyNames, tm \in TmuxResults :
        state' = BaseState(data, environ, get_tty(ps, inTty, outTty),
                           IF Truthy(environ.remote)
                           THEN get_tmux_target(environ.pane, tm) ELSE PyNone)
    /\ io' = [io EXCEPT !.tmux = IF RunsTmux(environ) THEN @ + 1 ELSE @]
    /\ pc' = "classify"
    /\ UNCHANGED <<environ, stdin, data, sock, peer, inbox, buf, wire, xfer, response,
                   raised, stdout, exitCode>>

----------------------------------------------------------------------------
(* main, lines 153-249: the event classifier                               *)

\* variant: tool_use_id is copied without the test of lines 164 and 173
WithToolUseId_Unconditional(st, d) == Put(st, "tool_use_id", Get(d, "tool_use_id", PyNone))

\* the tool fields of PreToolUse / PostToolUse (lines 160-165, 169-174)
WithToolUseId(st, d) ==
    IF Truthy(Get(d, "tool_use_id", PyNone))
    THEN Put(st, "tool_use_id", d["tool_use_id"])
    ELSE st

WithTool(st, d) ==
    Put(Put(st, "tool", Get(d, "tool_name", PyNone)),
        "tool_input", Get(d, "tool_input", PyEmptyDict))

WithStatus(st, status) == Put(st, "status", PyStr(status))

\* variant: the test of lines 220-222 is missing
Suppressed_Never(st, d) == FALSE

\* lines 218-222: the permission_prompt notification is dropped
Suppressed(st, d) ==
    /\ st["event"] = PyStr("Notification")
    /\ Get(d, "notification_type", PyNone) = PyStr("permission_prompt")

Classified(st, d) ==
    LET event == st["event"]
    IN  CASE event = PyStr("UserPromptSubmit") -> WithStatus(st, "processing")
          [] event = PyStr("PreToolUse") ->
                WithToolUseId(WithTool(WithStatus(st, "running_tool"), d), d)
          [] event = PyStr("PostToolUse") ->
                WithToolUseId(WithTool(WithStatus(st, "processing"), d), d)
          [] event = PyStr("PermissionRequest") ->
                WithTool(WithStatus(st, "waiting_for_approval"), d)
          [] event = PyStr("Notification") ->
                Put(Put(WithStatus(st, IF Get(d, "notification_type", PyNone) = PyStr("idle_prompt")
                                       THEN "waiting_for_input" ELSE "notification"),
                        "notification_type", Get(d, "notification_type", PyNone)),
                    "message", Get(d, "message", PyNone))
          [] event = PyStr("Stop") -> WithStatus(st, "waiting_for_input")
          [] event = PyStr("SubagentStop") -> WithStatus(st, "waiting_for_input")
          [] event = PyStr("SessionStart") -> WithStatus(st, "waiting_for_input")
          [] event = PyStr("SessionEnd") -> WithStatus(st, "ended")
          [] event = PyStr("PreCompact") -> WithStatus(st, "compacting")
          [] OTHER -> WithStatus(st, "unknown")

Classify ==
    /\ UNCHANGED conc
    /\ pc = "classify"
    /\ IF Suppressed(state, data)
       THEN Exit(0, "none") /\ state' = state
       ELSE /\ state' = Classified(state, data)
            /\ pc' = "connect"
            /\ UNCHANGED <<exitCode, raised>>
    /\ UNCHANGED <<environ, stdin, data, sock, peer, inbox, buf, wire, io, xfer, response, stdout>>

\* variants: the status test of line 110 never, or always, true
WaitsForReply_Never(st) == FALSE
WaitsForReply_Always(st) == TRUE

\* state.get("status") == "waiting_for_approval" (line 110)
WaitsForReply(st) == Get(st, "status", PyNone) = PyStr("waiting_for_approval")

----------------------------------------------------------------------------
(* send_event, lines 103-120, one action per call on the socket            *)

\* send_event returns to main with the value r
Return(r, how) ==
    /\ response' = r
    /\ xfer' = how
    /\ pc' = "return"
    /\ UNCHANGED <<exitCode, raised>>

\* variant: send_event without its except clause
Caught_Nothing(exc) == FALSE

\* variant: the except clause names json.JSONDecodeError alone
Caught_JsonOnly(exc) == exc = "JSONDecodeError"

\* the except clause of line 119: socket.error, OSError, json.JSONDecodeError
Caught(exc) == exc \in {"OSError", "JSONDecodeError"}

\* an exception raised inside the try block of send_event
Raise(exc, how) ==
    IF Caught(exc)
    THEN Return(DocNone, how)
    ELSE Exit(1, exc) /\ xfer' = how /\ response' = response

\* line 106, get_socket (lines 57-76)
Connect ==
    /\ UNCHANGED conc
    /\ pc = "connect"
    /\ LET t == Target(environ.tcp)
           s == [SetTimeout(NewSocket(t.family)) EXCEPT
                    !.host = t.host, !.port = t.port, !.path = t.path]
       IN  IF t.err # "none"
           THEN Raise(t.err, "config_error") /\ UNCHANGED <<sock, peer, io>>
           ELSE /\ io' = [io EXCEPT !.connects = @ + 1]
                /\ IF t.family = "AF_INET" /\ ~PortInRange(t.port)
                   THEN Raise("OverflowError", "config_error") /\ sock' = s /\ peer' = peer
                   ELSE \E outcome \in ConnectOutcomes :
                           IF outcome = "ok"
                           THEN /\ sock' = [s EXCEPT !.st = "open"]
                                /\ peer' = "open"
                                /\ pc' = "send"
                                /\ UNCHANGED <<response, xfer, exitCode, raised>>
                           ELSE /\ Raise("OSError", "connect_failed")
                                /\ sock' = s
                                /\ peer' = peer
    /\ UNCHANGED <<environ, stdin, data, state, inbox, buf, wire, stdout>>

\* sock.close(): unread data is dropped with the connection
Closed(s) == [s EXCEPT !.st = "closed"]

\* lines 107-110 and 115-118: sock.sendall(json.dumps(state).encode()), which
\* fails with an OSError (BrokenPipeError, ConnectionResetError, socket.timeout);
\* a record that expects no reply is fire and forget: close and return None.
\* When sendall raises, send_event returns and nothing can read from the socket
\* any more: what it had received is lost.
SendAll ==
    /\ UNCHANGED conc
    /\ pc = "send"
    /\ \E ok \in BOOLEAN :
        IF ~ok
        THEN /\ Raise("OSError", "send_failed")
             /\ io' = [io EXCEPT !.writes = @ + 1]
             /\ inbox' = <<>>
             /\ UNCHANGED <<wire, sock>>
        ELSE /\ wire' = Append(wire, Dumps(state))
             /\ IF WaitsForReply(state)
                THEN /\ pc' = "recv"
                     /\ io' = [io EXCEPT !.writes = @ + 1]
                     /\ UNCHANGED <<sock, inbox, response, xfer, exitCode, raised>>
                ELSE /\ Return(DocNone, "sent")
                     /\ sock' = Closed(sock)
                     /\ inbox' = <<>>
                     /\ io' = [io EXCEPT !.writes = @ + 1, !.closes = @ + 1]
    /\ UNCHANGED <<environ, stdin, data, state, peer, buf, stdout>>

\* lines 112-114 and 118: what send_event does with the bytes recv returned
Parsed(bytes) ==
    IF bytes = <<>>
    THEN Return(DocNone, "peer_closed")
    ELSE IF DecodeFails(bytes)
    THEN Raise("UnicodeDecodeError", "parse_error")
    ELSE IF ~Loads(bytes).ok
    THEN Raise("JSONDecodeError", "parse_error")
    ELSE Return(Loads(bytes).val, "replied")

\* lines 111-114: sock.recv(4096) returns the bytes that have arrived, 4096 of
\* them at most, whatever the peer did after writing them, or b"" once the peer
\* has closed; the socket is closed and the bytes are parsed.  With nothing
\* received, a reset connection makes recv raise ConnectionResetError, an OSError.
Recv ==
    /\ UNCHANGED conc
    /\ pc = "recv"
    /\ \/ /\ inbox # <<>>
          /\ buf' = Take(Flatten(inbox), RECV_BUFSIZE)
          /\ Parsed(buf')
          /\ sock' = Closed(sock)
          /\ inbox' = <<>>
          /\ io' = [io EXCEPT !.reads = @ + 1, !.closes = @ + 1]
       \/ /\ inbox = <<>>
          /\ peer = "closed"
          /\ buf' = <<>>
          /\ Parsed(<<>>)
          /\ sock' = Closed(sock)
          /\ inbox' = inbox
          /\ io' = [io EXCEPT !.reads = @ + 1, !.closes = @ + 1]
       \/ /\ inbox = <<>>
          /\ peer = "reset"
          /\ Raise("OSError", "recv_error")
          /\ io' = [io EXCEPT !.reads = @ + 1]
          /\ UNCHANGED <<buf, inbox, sock>>
    /\ UNCHANGED <<environ, stdin, data, state, peer, wire, stdout>>

\* line 111: the timeout set by get_socket expires with nothing received
RecvTimeout ==
    /\ UNCHANGED conc
    /\ pc = "recv"
    /\ inbox = <<>>
    /\ peer = "open"
    /\ sock.timed
    /\ Raise("OSError", "timed_out")
    /\ io' = [io EXCEPT !.reads = @ + 1]
    /\ UNCHANGED <<environ, stdin, data, state, sock, peer, inbox, buf, wire, stdout>>

----------------------------------------------------------------------------
(* main, lines 186-216 and 252: after send_event                           *)

Directive(behavior, message) ==
    [hookEventName |-> "PermissionRequest", behavior |-> behavior, message |-> message]

AllowDirective == Directive("allow", PyNone)

\* variant: the reason is passed on as it came, without the default
DenyMessage_NoDefault(reason) == reason

\* reason or "Denied by user via ClaudeIsland"
DenyMessage(reason) == IF Truthy(reason) THEN reason ELSE PyStr(DENY_DEFAULT)

DenyDirective(reason) == Directive("deny", DenyMessage(reason))

\* variant: the deny branch of lines 203-216 is missing
Translated_AllowOnly(r) ==
    IF ~DocTruthy(r) THEN <<>>
    ELSE IF Get(r.d, "decision", PyStr("ask")) = PyStr("allow") THEN <<AllowDirective>>
    ELSE <<>>

\* what lines 186-216 print for the value send_event returned
Translated(r) ==
    IF ~DocTruthy(r) THEN <<>>
    ELSE LET decision == Get(r.d, "decision", PyStr("ask"))
             reason == Get(r.d, "reason", PyStr(""))
         IN  IF decision = PyStr("allow") THEN <<AllowDirective>>
             ELSE IF decision = PyStr("deny") THEN <<DenyDirective(reason)>>
             ELSE <<>>

\* response.get on a value that is not a dict raises AttributeError (line 187)
HasGet(r) == r.k = "dict"

Translate ==
    /\ UNCHANGED conc
    /\ pc = "return"
    /\ WaitsForReply(state)
    /\ IF DocTruthy(response) /\ ~HasGet(response)
       THEN Exit(1, "AttributeError") /\ stdout' = stdout
       ELSE Exit(0, "none") /\ stdout' = stdout \o Translated(response)
    /\ UNCHANGED <<environ, stdin, data, state, sock, peer, inbox, buf, wire, io, xfer,
                   response>>

\* line 252 returned: main ends
MainEnd ==
    /\ UNCHANGED conc
    /\ pc = "return"
    /\ ~WaitsForReply(state)
    /\ Exit(0, "none")
    /\ UNCHANGED <<environ, stdin, data, state, sock, peer, inbox, buf, wire, io, xfer,
                   response, stdout>>

----------------------------------------------------------------------------
(* The companion application, while the process is inside the exchange of  *)
(* send_event with the connection open                                     *)

Connected == sock.st = "open" /\ pc \in {"send", "recv"}

PeerSend ==
    /\ UNCHANGED conc
    /\ Connected
    /\ peer = "open"
    /\ Len(inbox) < MaxPeerMsgs
    /\ \E seg \in NextSegments(ReplySegments, inbox) : inbox' = Append(inbox, seg)
    /\ UNCHANGED <<environ, stdin, pc, data, state, sock, peer, buf, wire, io, xfer,
                   response, raised, stdout, exitCode>>

PeerClose ==
    /\ UNCHANGED conc
    /\ Connected
    /\ peer = "open"
    /\ peer' = "closed"
    /\ UNCHANGED <<environ, stdin, pc, data, state, sock, inbox, buf, wire, io, xfer,
                   response, raised, stdout, exitCode>>

PeerReset ==
    /\ UNCHANGED conc
    /\ Connected
    /\ peer = "open"
    /\ peer' = "reset"
    /\ UNCHANGED <<environ, stdin, pc, data, state, sock, inbox, buf, wire, io, xfer,
                   response, raised, stdout, exitCode>>

----------------------------------------------------------------------------

Process ==
    \/ ReadStdin
    \/ BuildContext
    \/ Classify
    \/ Connect
    \/ SendAll
    \/ Recv
    \/ RecvTimeout
    \/ Translate
    \/ MainEnd

Peer == PeerSend \/ PeerClose \/ PeerReset

Next == Process \/ Peer

Spec == Init /\ [][Next]_vars

\* The specification of the liveness properties: the interpreter keeps running
\* the process, the peer owes nothing.  The remote-session variables, which
\* only fill two fields of the record, are left unset to keep the behaviour
\* graph small; events, transport targets and the peer are as in Spec.
FairInit == Init /\ environ.remote = PyNone /\ environ.pane = PyNone

FairSpec == FairInit /\ [][Next]_vars /\ WF_vars(Process)

----------------------------------------------------------------------------
(* Vocabulary of the properties                                            *)

Done == pc = "done"

\* the record built by the classifier has the given status
HasStatus(status) == "status" \in DOMAIN state /\ state["status"] = PyStr(status)

PermissionRecord == HasStatus("waiting_for_approval")
OtherRecord == "status" \in DOMAIN state /\ ~PermissionRecord

\* DeferToDefault: exit status 0 and nothing on standard output
DeferToDefault == exitCode = 0 /\ stdout = <<>>

NoReplyOutcomes == {"connect_failed", "send_failed", "timed_out", "peer_closed", "recv_error"}

\* an exception left send_event instead of being turned into "no reply": it was
\* raised by get_socket, by a call on the socket or by the parsing of the reply
SendEventRaised ==
    raised # "none" /\ xfer \in NoReplyOutcomes \cup {"parse_error", "config_error"}

----------------------------------------------------------------------------
\* C1: send_event never raises to its caller: every transport or reply-parsing
\* failure (including reply bytes that are not valid UTF-8) is returned as
\* "no reply", so no exception ever leaves send_event.
C1_SendEventNeverRaises == ~SendEventRaised

\* C2: on the PermissionRequest path a directive is on standard output only
\* after the record was written and a reply was read on that connection, a reply
\* outcome is only reached after the record was sent, and every run that ends
\* in a connect failure, send failure, receive timeout or peer close (or reset)
\* without data ends in DeferToDefault.
C2_PermissionStateMachine ==
    PermissionRecord =>
        /\ stdout # <<>> =>
              /\ xfer = "replied"
              /\ Len(wire) = 1 /\ io.writes = 1 /\ io.reads = 1
              /\ buf # <<>>
              /\ Done /\ exitCode = 0
        /\ xfer \in {"replied", "timed_out", "peer_closed", "recv_error", "parse_error"} =>
              Len(wire) = 1 /\ wire[1] = Dumps(state)
        /\ (Done /\ xfer \in NoReplyOutcomes) => DeferToDefault
        /\ (pc = "return" /\ xfer \in NoReplyOutcomes) => response = DocNone

C2_Witness ==
    /\ Done /\ PermissionRecord /\ xfer = "replied"
    /\ Len(stdout) = 1 /\ stdout[1].behavior = "allow"

\* C3: decision translation: reply {"decision":"allow"} prints behavior=allow;
\* {"decision":"deny","reason":"no"} prints behavior=deny with message "no";
\* deny with no reason or an empty reason prints the fixed message; reply {} or
\* no reply prints nothing; in all of these the exit status is 0.
C3_DecisionTranslation ==
    (Done /\ PermissionRecord) =>
        /\ (xfer = "replied" /\ buf = Obj(<<<<"decision", PyStr("allow")>>>>)) =>
              /\ stdout = <<[hookEventName |-> "PermissionRequest", behavior |-> "allow",
                             message |-> PyNone]>>
              /\ exitCode = 0
        /\ (xfer = "replied"
              /\ buf = Obj(<<<<"decision", PyStr("deny")>>, <<"reason", PyStr("no")>>>>)) =>
              /\ stdout = <<[hookEventName |-> "PermissionRequest", behavior |-> "deny",
                             message |-> PyStr("no")]>>
              /\ exitCode = 0
        /\ (xfer = "replied"
              /\ buf \in {Obj(<<<<"decision", PyStr("deny")>>>>),
                          Obj(<<<<"decision", PyStr("deny")>>, <<"reason", PyStr("")>>>>)}) =>
              /\ stdout = <<[hookEventName |-> "PermissionRequest", behavior |-> "deny",
                             message |-> PyStr("Denied by user via ClaudeIsland")]>>
              /\ exitCode = 0
        /\ ((xfer = "replied" /\ buf = Obj(<<>>)) \/ xfer \in NoReplyOutcomes) =>
              DeferToDefault

C3_Witness ==
    /\ Done /\ PermissionRecord /\ xfer = "replied"
    /\ buf = Obj(<<<<"decision", PyStr("deny")>>>>)
    /\ Len(stdout) = 1 /\ stdout[1].message = PyStr(DENY_DEFAULT)

\* C4 as stated: for a waiting_for_approval record one invocation performs
\* exactly one write followed by exactly one read (stated here for the runs in
\* which no exception escapes).
C4_ExactlyOneWriteOneRead ==
    (Done /\ PermissionRecord /\ raised = "none") =>
        io.writes = 1 /\ Len(wire) = 1 /\ io.reads = 1

\* C4 as amended: for a waiting_for_approval record there is at most one write
\* and at most one read, the read only after the record was written whole;
\* whenever the record was written the run makes exactly one read; a write that
\* fails or a connection that is not established gives no read; the exchange is
\* never repeated; a read that times out ends in DeferToDefault.
C4_WriteThenRead ==
    PermissionRecord =>
        /\ io.writes <= 1 /\ io.reads <= 1 /\ Len(wire) <= 1
        /\ io.reads = 1 => (io.writes = 1 /\ Len(wire) = 1 /\ wire[1] = Dumps(state))
        /\ (Done /\ Len(wire) = 1) => io.reads = 1
        /\ (Done /\ xfer \in {"send_failed", "connect_failed"}) => io.reads = 0
        /\ (Done /\ xfer = "connect_failed") => io.writes = 0
        /\ (Done /\ xfer = "timed_out") => (io.reads = 1 /\ DeferToDefault)

C4_Witness ==
    /\ Done /\ PermissionRecord /\ xfer = "timed_out"
    /\ io.writes = 1 /\ io.reads = 1 /\ DeferToDefault

\* C5 as stated: for every record with another status the client sends exactly
\* one message and performs no read before closing the connection, whatever the
\* peer does (stated here for the runs in which no exception escapes).
C5_ExactlyOneMessage ==
    (Done /\ OtherRecord /\ raised = "none") =>
        Len(wire) = 1 /\ io.reads = 0 /\ sock.st = "closed"

\* C5 as amended: for every record with another status the client never reads,
\* whatever the peer does, and calls sendall at most once: exactly once when the
\* connection is established, not at all when it is not; a connection it closes
\* has carried exactly the one serialized record.
C5_OneSendNoRead ==
    OtherRecord =>
        /\ io.reads = 0 /\ buf = <<>>
        /\ io.writes <= 1 /\ Len(wire) <= 1
        /\ (Done /\ peer # "none") => io.writes = 1
        /\ (Done /\ peer = "none") => (io.writes = 0 /\ wire = <<>>)
        /\ sock.st = "closed" => (wire = <<Dumps(state)>> /\ io.closes = 1)
        /\ (Done /\ xfer = "sent") => sock.st = "closed"

C5_Witness ==
    /\ Done /\ OtherRecord /\ xfer = "sent" /\ peer = "reset"
    /\ Len(wire) = 1 /\ io.reads = 0

\* C6: every connection an invocation opened is explicitly closed before the
\* process terminates, on every exit path of the exchange: after a send, after
\* a reply, after a receive timeout, after a send error, after a parse error.
C6_ConnectionClosedOnExit == Done => sock.st # "open"

\* C7: every invocation terminates, whatever the event and whatever the peer
\* does: a peer that accepts and never replies cannot block the process, because
\* the read times out; with an unreachable transport the exit status is 0.
C7_Terminates ==
    /\ <>Done
    /\ [](pc = "recv" => sock.timed)
    /\ []((Done /\ xfer = "connect_failed") => exitCode = 0)

C7_Witness ==
    /\ Done /\ PermissionRecord /\ xfer = "timed_out"
    /\ peer = "open" /\ inbox = <<>> /\ exitCode = 0

\* CLAUDE_ISLAND_TCP is set and its port part is not a number
MalformedTarget ==
    /\ environ.tcp.k = "str" /\ Len(environ.tcp.c) > 0
    /\ ~IntParses(IF LastColon(environ.tcp.c) > 0
                  THEN RSplitPort(environ.tcp.c) ELSE environ.tcp.c)

\* C8: a malformed transport target is a transport failure and is not fatal:
\* delivery is skipped and the run ends in exit status 0 with nothing printed.
C8_MalformedTargetNonFatal ==
    (Done /\ "status" \in DOMAIN state /\ MalformedTarget) => DeferToDefault

\* the reply that was read is valid JSON without a decision of allow or deny
NoDecisionReply ==
    /\ buf # <<>> /\ ~DecodeFails(buf) /\ Loads(buf).ok
    /\ ~(/\ Loads(buf).val.k = "dict"
         /\ Get(Loads(buf).val.d, "decision", PyNone) \in {PyStr("allow"), PyStr("deny")})

\* C9: a reply whose decision is absent, unrecognized or malformed, including
\* valid JSON that is not an object (array, string, number), counts as "ask":
\* the run ends in exit status 0 with nothing printed.
C9_MalformedReplyDefers ==
    (Done /\ PermissionRecord /\ NoDecisionReply) => DeferToDefault

\* The table of the event classifier: status by event tag and notification type
TableStatus(e, nt) ==
    CASE e = PyStr("UserPromptSubmit") -> "processing"
      [] e = PyStr("PreToolUse") -> "running_tool"
      [] e = PyStr("PostToolUse") -> "processing"
      [] e = PyStr("PermissionRequest") -> "waiting_for_approval"
      [] e = PyStr("Notification") /\ nt = PyStr("idle_prompt") -> "waiting_for_input"
      [] e = PyStr("Notification") /\ nt # PyStr("idle_prompt") -> "notification"
      [] e \in {PyStr("Stop"), PyStr("SubagentStop"), PyStr("SessionStart")} -> "waiting_for_input"
      [] e = PyStr("SessionEnd") -> "ended"
      [] e = PyStr("PreCompact") -> "compacting"
      [] OTHER -> "unknown"

\* The table of the event classifier: the conditional fields by event tag
TableFields(e, hasToolUseId) ==
    CASE e \in {PyStr("PreToolUse"), PyStr("PostToolUse")} ->
            {"tool", "tool_input"} \cup (IF hasToolUseId THEN {"tool_use_id"} ELSE {})
      [] e = PyStr("PermissionRequest") -> {"tool", "tool_input"}
      [] e = PyStr("Notification") -> {"notification_type", "message"}
      [] OTHER -> {}

ConditionalFields == {"tool", "tool_input", "tool_use_id", "notification_type", "message"}

\* C10: the record the classifier builds has the status of the table for its
\* event tag and, of the conditional fields, exactly those of the table;
\* tool_use_id only when the input carries a non-empty one, never for
\* PermissionRequest.
C10_ClassifierTable ==
    "status" \in DOMAIN state =>
        LET e == Get(data, "hook_event_name", PyStr(""))
            nt == Get(data, "notification_type", PyNone)
            tu == Get(data, "tool_use_id", PyStr(""))
        IN  /\ state["status"] = PyStr(TableStatus(e, nt))
            /\ DOMAIN state \cap ConditionalFields = TableFields(e, tu # PyStr(""))
            /\ "tool_use_id" \in DOMAIN state =>
                  /\ "tool_use_id" \in DOMAIN data
                  /\ state["tool_use_id"] = data["tool_use_id"]
                  /\ e # PyStr("PermissionRequest")

C10_Witness ==
    /\ "status" \in DOMAIN state
    /\ state["event"] = PyStr("PostToolUse")
    /\ state["status"] = PyStr("processing")
    /\ "tool_use_id" \in DOMAIN data
    /\ "tool_use_id" \notin DOMAIN state

----------------------------------------------------------------------------
\* the event read from standard input is a Notification of type permission_prompt
PermissionPromptEvent ==
    /\ Get(data, "hook_event_name", PyStr("")) = PyStr("Notification")
    /\ Get(data, "notification_type", PyNone) = PyStr("permission_prompt")

\* C11: for a Notification whose notification_type is permission_prompt no
\* socket is created or connected, no record is written, nothing is printed on
\* standard output, and the process ends with exit status 0 right after the
\* classifier.
C11_PermissionPromptSuppressed ==
    PermissionPromptEvent =>
        /\ sock = NoSocket /\ peer = "none"
        /\ io.connects = 0 /\ io.writes = 0 /\ io.reads = 0
        /\ wire = <<>> /\ stdout = <<>>
        /\ pc \in {"context", "classify", "done"}
        /\ Done => (exitCode = 0 /\ raised = "none")

C11_Witness == Done /\ PermissionPromptEvent /\ exitCode = 0 /\ "event" \in DOMAIN state

\* standard input has been read and did not hold an event document
StdinRejected == pc # "start" /\ stdin \in BadDocs

\* C12: when standard input does not hold a parseable event document the
\* process ends with exit status 1 as soon as it has read it, and there is no
\* network activity: no socket is created or connected and nothing is written.
C12_BadStdinExitsOne ==
    StdinRejected =>
        /\ Done /\ exitCode = 1
        /\ sock = NoSocket /\ peer = "none" /\ io = NoIO /\ wire = <<>>
        /\ state = NoKeys /\ stdout = <<>>

C12_Witness == Done /\ stdin = <<P("{"), TStr("hook_event_name")>> /\ exitCode = 1

\* the ways the delivery of a fire-and-forget record ends: written whole, the
\* connect failed, or sendall failed part-way
DeliveryOutcomes == {"sent", "connect_failed", "send_failed"}

\* C13: for a record whose status is not waiting_for_approval the exit status
\* and standard output are the same whatever the delivery outcome: whether the
\* connect succeeds, the connect fails or sendall fails, the process ends with
\* status 0 and nothing on standard output, nothing is read, and the send is
\* made once at most (one connect, one sendall, never a retry after a failure).
C13_OutcomeIndependent ==
    OtherRecord =>
        /\ stdout = <<>> /\ io.reads = 0 /\ buf = <<>>
        /\ io.connects <= 1 /\ io.writes <= 1 /\ Len(wire) <= 1
        /\ xfer = "connect_failed" => (io.connects = 1 /\ io.writes = 0 /\ wire = <<>>)
        /\ xfer = "send_failed" => (io.connects = 1 /\ io.writes = 1 /\ wire = <<>>)
        /\ xfer = "sent" => (io.connects = 1 /\ io.writes = 1 /\ wire = <<Dumps(state)>>)
        /\ pc = "return" => (xfer \in DeliveryOutcomes /\ response = DocNone)
        /\ (Done /\ xfer \in DeliveryOutcomes) => (exitCode = 0 /\ raised = "none")

C13_Witness ==
    /\ Done /\ OtherRecord /\ xfer = "send_failed" /\ io.writes = 1
    /\ exitCode = 0 /\ stdout = <<>>

\* the decision of the reply that recv returned, PyNone when the bytes are not
\* a JSON object
ReceivedDecision ==
    IF buf # <<>> /\ ~DecodeFails(buf) /\ Loads(buf).ok /\ Loads(buf).val.k = "dict"
    THEN Get(Loads(buf).val.d, "decision", PyStr("ask"))
    ELSE PyNone

\* C14: standard output is non-empty if and only if the event was a
\* PermissionRequest and the decision of the reply received was "allow" or
\* "deny" (once the process has ended), and then it holds exactly one directive
\* document, the one of that decision.
C14_StdoutIffDecision ==
    /\ stdout # <<>> <=>
            /\ Done
            /\ Get(data, "hook_event_name", PyStr("")) = PyStr("PermissionRequest")
            /\ ReceivedDecision \in {PyStr("allow"), PyStr("deny")}
    /\ stdout # <<>> =>
            /\ Len(stdout) = 1 /\ exitCode = 0
            /\ stdout[1].hookEventName = "PermissionRequest"
            /\ PyStr(stdout[1].behavior) = ReceivedDecision

C14_Witness ==
    /\ Done /\ Len(stdout) = 1 /\ stdout[1].behavior = "deny"
    /\ ReceivedDecision = PyStr("deny")

\* the members of the record that was written to the connection, as the
\* receiver parses them
Payload == Loads(wire[1]).val.d

\* how many members of a JSON text have the given key
CountKey(bytes, key) ==
    Cardinality({ i \in 1..(Len(bytes) - 1) : bytes[i] = TStr(key) /\ bytes[i + 1] = P(":") })

ContextKeys == {"tty", "remote_host", "tmux_target"}

\* C15 as stated: every record written has exactly one status, and a field
\* that is not available is left out of the payload rather than null-filled:
\* no "tty" key when no tty was discovered, no "remote_host" key without a
\* remote context, no "tmux_target" key when no multiplexer target was resolved.
C15_UnavailableFieldsOmitted ==
    wire # <<>> =>
        /\ CountKey(wire[1], "status") = 1
        /\ state["tty"] = PyNone => "tty" \notin DOMAIN Payload
        /\ environ.remote = PyNone => "remote_host" \notin DOMAIN Payload
        /\ state["tmux_target"] = PyNone => "tmux_target" \notin DOMAIN Payload

\* C15 amended: every record written is one JSON object with exactly one
\* status whose members are those of state; the keys tty, remote_host and
\* tmux_target are always in it and hold null when the value is not available;
\* tool_use_id is the one field left out when it has no value.
C15_UnavailableFieldsNull ==
    wire # <<>> =>
        LET received == Loads(wire[1])
            members == received.val.d
        IN  /\ Len(wire) = 1 /\ received.ok /\ received.val.k = "dict"
            /\ members = state
            /\ CountKey(wire[1], "status") = 1
            /\ ContextKeys \subseteq DOMAIN members
            /\ members["remote_host"] = environ.remote
            /\ ~RunsTmux(environ) => members["tmux_target"] = PyNone
            /\ "tool_use_id" \in DOMAIN members => Truthy(members["tool_use_id"])

C15_Witness ==
    /\ wire # <<>>
    /\ Payload["tty"] = PyNone
    /\ Payload["remote_host"] = PyNone
    /\ Payload["tmux_target"] = PyNone
    /\ Payload["status"] = PyStr("running_tool")

\* the address of a socket: its family and where it connects to
AddressOf(s) == [family |-> s.family, host |-> s.host, port |-> s.port, path |-> s.path]

TcpAddress(host, port) == [family |-> "AF_INET", host |-> host, port |-> port, path |-> ""]
UnixAddress(path) == [family |-> "AF_UNIX", host |-> <<>>, port |-> 0, path |-> path]

\* the transport the claim gives to each value of CLAUDE_ISLAND_TCP that names one
TransportTable(tcp) ==
    CASE tcp = EnvUnset -> UnixAddress("/tmp/claude-island.sock")
      [] tcp = EnvChars(<<>>) -> UnixAddress("/tmp/claude-island.sock")
      [] tcp = EnvChars(<<"9", "9">>) ->
            TcpAddress(<<"l", "o", "c", "a", "l", "h", "o", "s", "t">>, 99)
      [] tcp = EnvChars(<<"h", ":", "9">>) -> TcpAddress(<<"h">>, 9)
      [] tcp = EnvChars(<<"a", ":", "b", ":", "9">>) -> TcpAddress(<<"a", ":", "b">>, 9)

TabledTargets ==
    { EnvUnset, EnvChars(<<>>), EnvChars(<<"9", "9">>), EnvChars(<<"h", ":", "9">>),
      EnvChars(<<"a", ":", "b", ":", "9">>) }

\* get_socket has been called: a record was classified and the process is past
\* line 106
PastGetSocket == "status" \in DOMAIN state /\ pc # "connect"

\* C16: CLAUDE_ISLAND_TCP without ':' connects to localhost at that port; with
\* ':' it is split on its last ':' into host and port; unset or empty, the
\* socket is the Unix socket /tmp/claude-island.sock.  One socket is made per
\* invocation, of one family, and connect is called on it once.
C16_TransportSelection ==
    /\ io.connects <= 1
    /\ sock.st # "none" => sock.family \in {"AF_INET", "AF_UNIX"}
    /\ sock.st # "none" =>
            (sock.family = "AF_UNIX" <=> environ.tcp \in {EnvUnset, EnvChars(<<>>)})
    /\ sock.st = "open" => environ.tcp \in TabledTargets
    /\ (PastGetSocket /\ environ.tcp \in TabledTargets) =>
            /\ sock.st # "none" /\ io.connects = 1
            /\ AddressOf(sock) = TransportTable(environ.tcp)

C16_Witness ==
    /\ sock.st = "open"
    /\ environ.tcp = EnvChars(<<"a", ":", "b", ":", "9">>)
    /\ sock.host = <<"a", ":", "b">> /\ sock.port = 9

\* the tmux query gave no descriptor: it raised or timed out, ended with a
\* non-zero status, or printed nothing
QueryGaveNothing(tm) == tm.fail \/ tm.rc # 0 \/ tm.out = ""

\* C17: the record's tmux_target has a value only when CLAUDE_ISLAND_REMOTE_HOST
\* is set and TMUX_PANE is present; without the remote marker the tmux query is
\* not run at all; with both, the value is the descriptor the query printed or,
\* when the query fails, times out or prints nothing, the raw pane id; with the
\* marker but no pane id it is None.
C17_TmuxTarget ==
    /\ "tmux_target" \in DOMAIN state =>
            /\ state["tmux_target"] # PyNone =>
                    (environ.remote # PyNone /\ environ.pane # PyNone)
            /\ environ.remote = PyNone => (io.tmux = 0 /\ state["tmux_target"] = PyNone)
            /\ environ.pane = PyNone => (io.tmux = 0 /\ state["tmux_target"] = PyNone)
            /\ (environ.remote # PyNone /\ environ.pane # PyNone) =>
                    /\ io.tmux = 1
                    /\ state["tmux_target"] \in {environ.pane, PyStr("main:1.0")}
    /\ "tmux_target" \notin DOMAIN state => io.tmux = 0
    /\ \A tm \in TmuxResults :
            /\ QueryGaveNothing(tm) => get_tmux_target(environ.pane, tm) = environ.pane
            /\ (~QueryGaveNothing(tm) /\ environ.pane # PyNone) =>
                    get_tmux_target(environ.pane, tm) = PyStr(tm.out)

C17_Witness ==
    /\ "tmux_target" \in DOMAIN state
    /\ environ.remote = PyStr("cluster") /\ environ.pane = PyStr("%42")
    /\ state["tmux_target"] = PyStr("%42") /\ io.tmux = 1

----------------------------------------------------------------------------
(* Two invocations of the hook running side by side against one companion  *)
(* application.  Each is an operating-system process of its own: its locals *)
(* are runs[p]; the connections the application has accepted are conns[c].  *)
(* send_event and lines 184-216 and 252 of main are modelled as above, on   *)
(* the locals of the invocation that takes the step.                        *)

Invocations == {1, 2}
ConnIds == {1, 2}

\* the two events of the side-by-side runs, and the records main builds for them
ConcDocs ==
    { Obj(Common("PermissionRequest") \o <<<<"tool_name", PyStr("Bash")>>>>),
      Obj(Common("Stop")) }

RecordOf(doc) ==
    LET d == Loads(doc).val.d
    IN  Classified(BaseState(d, [remote |-> PyNone], PyStr("/dev/ttys001"), PyNone), d)

\* what the application may reply on a connection
ConcReplySegments ==
    { Obj(<<<<"decision", PyStr("allow")>>>>),
      Obj(<<<<"decision", PyStr("deny")>>, <<"reason", PyStr("no")>>>>),
      <<P("{"), TStr("decision"), P(":"), TStr("allow")>> }

NewRun(doc) ==
    [pc |-> "connect", state |-> RecordOf(doc), conn |-> 0, buf |-> <<>>,
     response |-> DocNone, xfer |-> "none", raised |-> "none", stdout |-> <<>>,
     exitCode |-> NoExit]

NoConn == [st |-> "none", peer |-> "none", inbox |-> <<>>, sent |-> <<>>, wire |-> <<>>]
OpenConn == [st |-> "open", peer |-> "open", inbox |-> <<>>, sent |-> <<>>, wire |-> <<>>]

ConcInit ==
    /\ environ = [tcp |-> EnvUnset, remote |-> PyNone, pane |-> PyNone]
    /\ stdin = <<>>
    /\ pc = "start"
    /\ data = NoKeys
    /\ state = NoKeys
    /\ sock = NoSocket
    /\ peer = "none"
    /\ inbox = <<>>
    /\ buf = <<>>
    /\ wire = <<>>
    /\ io = NoIO
    /\ xfer = "none"
    /\ response = DocNone
    /\ raised = "none"
    /\ stdout = <<>>
    /\ exitCode = NoExit
    /\ runs \in [Invocations -> { NewRun(doc) : doc \in ConcDocs }]
    /\ conns = [c \in ConnIds |-> NoConn]

\* variant: every call of get_socket ends on one and the same connection
NewConnection_Shared(cs) == 1

\* socket.socket() and connect() of get_socket: the application accepts a
\* connection that no other socket has
NewConnection(cs) ==
    CHOOSE c \in ConnIds : cs[c].st = "none" /\ \A d \in ConnIds : d < c => cs[d].st # "none"

\* an exception raised inside the try block of send_event: the value returned,
\* or the exception that leaves send_event
Thrown(exc, how) ==
    [response |-> DocNone, xfer |-> how, raised |-> IF Caught(exc) THEN "none" ELSE exc]

Returned(r, how) == [response |-> r, xfer |-> how, raised |-> "none"]

\* the locals of an invocation after send_event ended that way
After(run, out) ==
    IF out.raised = "none"
    THEN [run EXCEPT !.response = out.response, !.xfer = out.xfer, !.pc = "return"]
    ELSE [run EXCEPT !.xfer = out.xfer, !.raised = out.raised, !.exitCode = 1, !.pc = "done"]

\* lines 112-114 and 118 on the bytes recv returned
ParsedOutcome(bytes) ==
    IF bytes = <<>> THEN Returned(DocNone, "peer_closed")
    ELSE IF DecodeFails(bytes) THEN Thrown("UnicodeDecodeError", "parse_error")
    ELSE IF ~Loads(bytes).ok THEN Thrown("JSONDecodeError", "parse_error")
    ELSE Returned(Loads(bytes).val, "replied")

ConcConnect(p) ==
    /\ runs[p].pc = "connect"
    /\ \E outcome \in ConnectOutcomes :
        IF outcome = "ok"
        THEN LET c == NewConnection(conns)
             IN  /\ runs' = [runs EXCEPT ![p].conn = c, ![p].pc = "send"]
                 /\ conns' = [conns EXCEPT ![c] = OpenConn]
        ELSE /\ runs' = [runs EXCEPT ![p] = After(@, Thrown("OSError", "connect_failed"))]
             /\ conns' = conns
    /\ UNCHANGED single

ConcSendAll(p) ==
    /\ runs[p].pc = "send"
    /\ LET c == runs[p].conn
       IN  \E ok \in BOOLEAN :
            IF ~ok
            THEN /\ runs' = [runs EXCEPT ![p] = After(@, Thrown("OSError", "send_failed"))]
                 /\ conns' = [conns EXCEPT ![c].inbox = <<>>]
            ELSE IF WaitsForReply(runs[p].state)
            THEN /\ runs' = [runs EXCEPT ![p].pc = "recv"]
                 /\ conns' = [conns EXCEPT ![c].wire = Append(@, Dumps(runs[p].state))]
            ELSE /\ runs' = [runs EXCEPT ![p] = After(@, Returned(DocNone, "sent"))]
                 /\ conns' = [conns EXCEPT ![c].wire = Append(@, Dumps(runs[p].state)),
                                           ![c].st = "closed", ![c].inbox = <<>>]
    /\ UNCHANGED single

ConcRecv(p) ==
    /\ runs[p].pc = "recv"
    /\ LET c == runs[p].conn
           chunk == Take(Flatten(conns[c].inbox), RECV_BUFSIZE)
       IN  \/ /\ conns[c].inbox # <<>>
              /\ runs' = [runs EXCEPT ![p] = After([@ EXCEPT !.buf = chunk],
                                                   ParsedOutcome(chunk))]
              /\ conns' = [conns EXCEPT ![c].st = "closed", ![c].inbox = <<>>]
           \/ /\ conns[c].inbox = <<>>
              /\ conns[c].peer = "closed"
              /\ runs' = [runs EXCEPT ![p] = After(@, ParsedOutcome(<<>>))]
              /\ conns' = [conns EXCEPT ![c].st = "closed"]
           \/ /\ conns[c].inbox = <<>>
              /\ conns[c].peer = "reset"
              /\ runs' = [runs EXCEPT ![p] = After(@, Thrown("OSError", "recv_error"))]
              /\ conns' = conns
    /\ UNCHANGED single

ConcRecvTimeout(p) ==
    /\ runs[p].pc = "recv"
    /\ conns[runs[p].conn].inbox = <<>>
    /\ conns[runs[p].conn].peer = "open"
    /\ runs' = [runs EXCEPT ![p] = After(@, Thrown("OSError", "timed_out"))]
    /\ conns' = conns
    /\ UNCHANGED single

ConcTranslate(p) ==
    /\ runs[p].pc = "return"
    /\ WaitsForReply(runs[p].state)
    /\ runs' = [runs EXCEPT ![p] =
                    IF DocTruthy(@.response) /\ ~HasGet(@.response)
                    THEN [@ EXCEPT !.pc = "done", !.exitCode = 1, !.raised = "AttributeError"]
                    ELSE [@ EXCEPT !.pc = "done", !.exitCode = 0,
                                   !.stdout = @ \o Translated(runs[p].response)]]
    /\ conns' = conns
    /\ UNCHANGED single

ConcMainEnd(p) ==
    /\ runs[p].pc = "return"
    /\ ~WaitsForReply(runs[p].state)
    /\ runs' = [runs EXCEPT ![p].pc = "done", ![p].exitCode = 0]
    /\ conns' = conns
    /\ UNCHANGED single

\* the application has the connection and the process that made it is inside
\* the exchange of send_event
Served(c) ==
    /\ conns[c].st = "open"
    /\ conns[c].peer = "open"
    /\ \E p \in Invocations : runs[p].conn = c /\ runs[p].pc \in {"send", "recv"}

ConcPeerSend(c) ==
    /\ Served(c)
    /\ Len(conns[c].inbox) < MaxPeerMsgs
    /\ \E seg \in NextSegments(ConcReplySegments, conns[c].inbox) :
        conns' = [conns EXCEPT ![c].inbox = Append(@, seg), ![c].sent = Append(@, seg)]
    /\ UNCHANGED <<single, runs>>

ConcPeerClose(c) ==
    /\ Served(c)
    /\ conns' = [conns EXCEPT ![c].peer = "closed"]
    /\ UNCHANGED <<single, runs>>

ConcPeerReset(c) ==
    /\ Served(c)
    /\ conns' = [conns EXCEPT ![c].peer = "reset"]
    /\ UNCHANGED <<single, runs>>

ConcProcess(p) ==
    \/ ConcConnect(p)
    \/ ConcSendAll(p)
    \/ ConcRecv(p)
    \/ ConcRecvTimeout(p)
    \/ ConcTranslate(p)
    \/ ConcMainEnd(p)

ConcPeer(c) == ConcPeerSend(c) \/ ConcPeerClose(c) \/ ConcPeerReset(c)

ConcNext ==
    \/ \E p \in Invocations : ConcProcess(p)
    \/ \E c \in ConnIds : ConcPeer(c)

ConcSpec == ConcInit /\ [][ConcNext]_vars

\* what an invocation that read the bytes of a reply ends with: the documents
\* on its standard output and its exit status
SignalFor(bytes) ==
    IF DecodeFails(bytes) THEN [stdout |-> <<>>, exitCode |-> 1]
    ELSE IF ~Loads(bytes).ok THEN [stdout |-> <<>>, exitCode |-> 0]
    ELSE IF DocTruthy(Loads(bytes).val) /\ ~HasGet(Loads(bytes).val)
    THEN [stdout |-> <<>>, exitCode |-> 1]
    ELSE [stdout |-> Translated(Loads(bytes).val), exitCode |-> 0]

NoSignal == [stdout |-> <<>>, exitCode |-> 0]

\* the signal that the connection of invocation p alone accounts for: nothing
\* when p could not connect or send or when the application sent nothing on
\* that connection; else the translation of what it sent there
OwnSignal(p) ==
    LET c == runs[p].conn
    IN  IF ~WaitsForReply(runs[p].state) THEN NoSignal
        ELSE IF runs[p].xfer \in {"connect_failed", "send_failed"} THEN NoSignal
        ELSE IF conns[c].sent = <<>> THEN NoSignal
        ELSE SignalFor(Take(Flatten(conns[c].sent), RECV_BUFSIZE))

\* C18: two invocations running interleaved against the same application each
\* have a connection of their own, each writes its own record there, and the
\* control signal each ends with (standard output and exit status) is the one
\* its own connection accounts for: the reply sent on that connection, or no
\* reply there; what happens on the other invocation's connection never shows
\* in it.
C18_InvocationsIndependent ==
    /\ \A p, q \in Invocations :
            (p # q /\ runs[p].conn # 0 /\ runs[q].conn # 0) => runs[p].conn # runs[q].conn
    /\ \A p \in Invocations :
            /\ runs[p].conn # 0 =>
                    conns[runs[p].conn].wire \in {<<>>, <<Dumps(runs[p].state)>>}
            /\ runs[p].pc # "done" => (runs[p].stdout = <<>> /\ runs[p].exitCode = NoExit)
            /\ runs[p].pc = "done" =>
                    [stdout |-> runs[p].stdout, exitCode |-> runs[p].exitCode] = OwnSignal(p)

C18_Witness ==
    /\ runs[1].pc = "done" /\ runs[2].pc = "done"
    /\ runs[1].conn # runs[2].conn
    /\ runs[1].stdout = <<AllowDirective>>
    /\ runs[2].stdout = <<DenyDirective(PyStr("no"))>>

\* C19: the process ends with exit status 1 only when standard input is
\* unparseable; every other run (normal completion, suppressed notification,
\* delivery failure, rendered decision, deferral to default) ends with status 0.
C19_ExitOneOnlyOnBadStdin ==
    Done => /\ exitCode \in {0, 1}
            /\ exitCode = 1 <=> stdin \in BadDocs

\* the bytes recv returned are a part of a reply and not a whole one: the first
\* segment of a reply that came in two, or a reply cut at the 4096th byte
PartialChunk ==
    /\ buf # <<>>
    /\ buf \in SplitReplyHeads \/ buf[Len(buf)].t = "cut"

\* C20: on the permission path the reply is what one recv of at most 4096
\* bytes returned; when that chunk is only a part of the reply (the reply came
\* in several segments, or is longer than 4096 bytes) the process ends in
\* DeferToDefault, and no allow directive is printed from it.
C20_PartialReplyDefers ==
    /\ io.reads <= 1
    /\ (Done /\ PermissionRecord /\ PartialChunk) =>
            (DeferToDefault /\ stdout # <<AllowDirective>>)

\* the part of C20 that holds: whatever the chunk, a partial one never puts a
\* directive on standard output
C20_NoDirectiveFromPartial == PartialChunk => stdout = <<>>

====
